---------------------------- MODULE Spec2Model ----------------------------
(***************************************************************************)
(* Model of the Legislative-Calculator scoring engine:                     *)
(*   src/country_manager.py  CountryDataManager, LegislativeCalculatorEnhanced *)
(*   src/app.py              LegislativeSystem, LegislativeCalculator      *)
(*                                                                         *)
(* Numbers are exact decimal fixed point:                                  *)
(*   factor scores   in tenths            (0.3  is 3)                      *)
(*   weights         in ten-thousandths   (0.30 is 3000, 0.175 is 1750)    *)
(*   totals and probabilities in hundred-thousandths (1.0 is 100000)       *)
(* Every weight is a multiple of 50, so the products *0.7 and *0.5 of the  *)
(* code are exact in these units.                                          *)
(***************************************************************************)
EXTENDS Integers, Sequences, FiniteSets, TLC

VARIABLES
    factbook_data,      \* CountryDataManager.factbook_data: sequence of records, in file order
    political_systems,  \* CountryDataManager.political_systems: country name -> entry
    phase,              \* "constructing" before CountryDataManager.__init__ has run, then "ready"
    systems,            \* LegislativeCalculator.systems: country -> LegislativeSystem
    factors,            \* the caller's factor-score map
    handed,             \* the weight vector object the caller kept from calculate_base_weights
    last,               \* the most recent call and what it returned
    first               \* an earlier call the caller kept, and what it returned

vars == <<factbook_data, political_systems, phase, systems, factors, handed, last, first>>

---------------------------------------------------------------------------
(* Python values *)

\* Python's None.
NoneValue == [none |-> TRUE]

\* An empty dict.
EmptyMap == [k \in {} |-> 0]

\* 1.0 in probability units (the upper clamp of max(0, min(1, total))).
One == 100000

Min(a, b) == IF a <= b THEN a ELSE b

Max(a, b) == IF a >= b THEN a ELSE b

\* Sum of f over the finite set S.
RECURSIVE SumOver(_, _)
SumOver(S, f) ==
    IF S = {} THEN 0
    ELSE LET k == CHOOSE x \in S : TRUE
         IN  f[k] + SumOver(S \ {k}, f)

---------------------------------------------------------------------------
(* Factor names and weights *)

BaselineFactors ==
    {"governing_party_support", "opposition_support", "public_opinion",
     "committee_approval", "fiscal_impact", "urgency_factor",
     "previous_similar_bills", "media_coverage"}

ChamberFactors == {"upper_house_support", "lower_house_support"}

\* The weights literal of calculate_base_weights.
BaselineWeights ==
    [k \in BaselineFactors |->
        CASE k = "governing_party_support" -> 3000
          [] k = "opposition_support"      -> 1500
          [] k = "public_opinion"          -> 1000
          [] k = "committee_approval"      -> 2000
          [] k = "fiscal_impact"           -> 1000
          [] k = "urgency_factor"          -> 500
          [] k = "previous_similar_bills"  -> 500
          [] k = "media_coverage"          -> 500]

\* weights[key] *= 0.7
TimesSevenTenths(w) == (w * 7) \div 10

\* total_score *= 0.5
TimesHalf(t) == (t * 5) \div 10

\* d with d[k] = v assigned (a new key is added, an existing one overwritten).
Assign(d, k, v) == [x \in DOMAIN d \cup {k} |-> IF x = k THEN v ELSE d[x]]

---------------------------------------------------------------------------
(* The Factbook dataset (json.load of the file) *)

(* A JSON value that may stand where the code expects a text:              *)
(*   [kind |-> "absent"]  the key is missing (dict.get gives its default)  *)
(*   [kind |-> "text"]    a string; toks is its sequence of words          *)
(*   [kind |-> "null"]    JSON null (None)                                 *)
(*   [kind |-> "num"]     a number                                         *)
(*   [kind |-> "list"]    a list or dict holding one string, toks          *)
Absent == [kind |-> "absent", toks |-> <<>>]

Text(toks) == [kind |-> "text", toks |-> toks]

Null == [kind |-> "null", toks |-> <<>>]

Num == [kind |-> "num", toks |-> <<>>]

ListOf(toks) == [kind |-> "list", toks |-> toks]

\* dict.get(key, ''): the value, or the empty string when the key is missing.
GetOrEmpty(v) == IF v.kind = "absent" THEN Text(<<>>) ELSE v

\* str(value): a string is itself; None prints as None, a number as its
\* digits, a container as its brackets around the repr of its contents.
Str(v) ==
    CASE v.kind = "text" -> v.toks
      [] v.kind = "null" -> <<"None">>
      [] v.kind = "num"  -> <<"5">>
      [] v.kind = "list" -> <<"[">> \o v.toks \o <<"]">>

\* str.lower() of one word.
LowerWord(w) ==
    CASE w = "Bicameral"     -> "bicameral"
      [] w = "Parliamentary" -> "parliamentary"
      [] w = "None"          -> "none"
      [] OTHER               -> w

\* str.lower()
Lower(toks) == [i \in DOMAIN toks |-> LowerWord(toks[i])]

\* word in text (no word of the vocabulary contains another one).
Contains(toks, word) == \E i \in DOMAIN toks : toks[i] = word

\* Determine legislature type (first match wins).
ClassifyLegislature(structure) ==
    LET legislative_desc == Lower(Str(GetOrEmpty(structure)))
    IN  IF Contains(legislative_desc, "bicameral") THEN "bicameral"
        ELSE IF Contains(legislative_desc, "unicameral") THEN "unicameral"
        ELSE "unknown"

\* A classification that tests for a monarchy first.
ClassifySystemMonarchyFirst(government_type) ==
    LET gov_type == Lower(Str(GetOrEmpty(government_type)))
    IN  IF Contains(gov_type, "monarchy") THEN "monarchy"
        ELSE IF Contains(gov_type, "parliamentary") THEN "parliamentary"
        ELSE IF Contains(gov_type, "presidential") THEN "presidential"
        ELSE "other"

\* Determine system type (first match wins).
ClassifySystem(government_type) ==
    LET gov_type == Lower(Str(GetOrEmpty(government_type)))
    IN  IF Contains(gov_type, "parliamentary") THEN "parliamentary"
        ELSE IF Contains(gov_type, "presidential") THEN "presidential"
        ELSE IF Contains(gov_type, "monarchy") THEN "monarchy"
        ELSE "other"

\* x.get(...) on a value that was read with a {} default: works on a dict (or
\* the default), raises AttributeError on anything else.
GetRaises(kind) == kind \notin {"absent", "dict"}

\* 'Government' not in data / data['Government'] raises TypeError: data is
\* None or a number, or a string or list that holds 'Government'.
LookupRaises(data) ==
    \/ data.kind \in {"null", "num"}
    \/ data.kind \in {"text", "list"} /\ data.has_government

\* if 'Government' not in data: continue
NoGovernment(data) == ~data.has_government

\* Building the entry (the dict literal and its key) raises: a nested field
\* that .get is called on is no dict, or the country name is unhashable.
BuildRaises(gov_data) ==
    \/ GetRaises(gov_data.kind)
    \/ GetRaises(gov_data.country_name.kind)
    \/ GetRaises(gov_data.capital)
    \/ GetRaises(gov_data.executive_branch)
    \/ GetRaises(gov_data.legislative_branch.kind)
    \/ GetRaises(gov_data.judicial_branch)
    \/ gov_data.country_name.conventional_long.kind = "list"

\* data.get('Government', {}).get('country_name', {}).get('conventional_long', '')
CountryName(gov_data) ==
    IF gov_data.country_name.kind = "absent" THEN ""
    ELSE IF gov_data.country_name.conventional_long.kind = "absent" THEN ""
    ELSE gov_data.country_name.conventional_long.text

\* gov_data.get('legislative_branch', {}).get('structure', '')
Structure(gov_data) ==
    IF gov_data.legislative_branch.kind = "absent" THEN Absent
    ELSE gov_data.legislative_branch.structure

\* The entry stored for a record, classification included.  The fields the
\* code copies verbatim for display only (capital, executive_branch,
\* judicial_branch, political_parties, suffrage, election_results and the
\* other legislative_branch texts) are left out: nothing reads them.
Entry(country_code, gov_data) ==
    [country_code     |-> country_code,
     government_type  |-> GetOrEmpty(gov_data.government_type),
     structure        |-> GetOrEmpty(Structure(gov_data)),
     legislature_type |-> ClassifyLegislature(Structure(gov_data)),
     system_type      |-> ClassifySystem(gov_data.government_type)]

\* An iteration that stores the entry before it reads the nested sections,
\* so that a record that raises there leaves what was stored so far.
ProcessRecordStoringFirst(ps, country_code, data) ==
    IF LookupRaises(data) THEN ps
    ELSE IF NoGovernment(data) THEN ps
    ELSE IF \/ GetRaises(data.Government.kind)
            \/ GetRaises(data.Government.country_name.kind)
            \/ data.Government.country_name.conventional_long.kind = "list"
         THEN ps
    ELSE IF BuildRaises(data.Government)
         THEN Assign(ps, CountryName(data.Government), [country_code |-> country_code])
    ELSE Assign(ps, CountryName(data.Government), Entry(country_code, data.Government))

\* One iteration of the loop of extract_political_systems: the registry
\* after the record (country_code, data) has been processed.
ProcessRecord(ps, country_code, data) ==
    IF LookupRaises(data) THEN ps
    ELSE IF NoGovernment(data) THEN ps
    ELSE IF BuildRaises(data.Government) THEN ps
    ELSE Assign(ps, CountryName(data.Government), Entry(country_code, data.Government))

\* The loop of extract_political_systems from record i on.
RECURSIVE ExtractFrom(_, _, _)
ExtractFrom(fd, ps, i) ==
    IF i > Len(fd) THEN ps
    ELSE ExtractFrom(fd, ProcessRecord(ps, fd[i].country_code, fd[i].data), i + 1)

\* CountryDataManager.extract_political_systems, over the items
\* (country_code, data) of factbook_data in file order.
extract_political_systems(fd) == ExtractFrom(fd, EmptyMap, 1)

---------------------------------------------------------------------------
(* CountryDataManager and LegislativeCalculatorEnhanced (country_manager.py) *)

\* self.political_systems.get(country_name, None)
get_country_system(country_name) ==
    IF country_name \in DOMAIN political_systems
    THEN political_systems[country_name]
    ELSE NoneValue

\* Adjust weights based on system type.
SystemTypeAdjusted(weights, system_type) ==
    IF system_type = "presidential"
    THEN [weights EXCEPT !["governing_party_support"] = 2500,
                         !["opposition_support"] = 2500]
    ELSE IF system_type = "monarchy"
    THEN [weights EXCEPT !["governing_party_support"] = 2500,
                         !["public_opinion"] = 1500]
    ELSE weights

\* The chamber weights added before the scaling, and scaled with the rest.
LegislatureTypeAdjustedScaledAll(weights, legislature_type) ==
    IF legislature_type = "bicameral"
    THEN LET added == Assign(Assign(weights, "upper_house_support", 1500),
                             "lower_house_support", 1500)
         IN  [k \in DOMAIN added |-> TimesSevenTenths(added[k])]
    ELSE weights

\* Adjust for legislature type: scale every weight, then add the chamber weights.
LegislatureTypeAdjusted(weights, legislature_type) ==
    IF legislature_type = "bicameral"
    THEN LET scaled == [k \in DOMAIN weights |-> TimesSevenTenths(weights[k])]
         IN  Assign(Assign(scaled, "upper_house_support", 1500),
                    "lower_house_support", 1500)
    ELSE weights

\* A calculate_base_weights that keeps the vector it built for a country and
\* returns the same object again.
calculate_base_weights_shared(country_name) ==
    LET country_data == get_country_system(country_name)
    IN  IF country_data = NoneValue THEN NoneValue
        ELSE IF handed.country = country_name THEN handed.weights
        ELSE LegislatureTypeAdjusted(
                 SystemTypeAdjusted(BaselineWeights, country_data.system_type),
                 country_data.legislature_type)

\* CountryDataManager.calculate_base_weights: a new dict on every call.
calculate_base_weights(country_name) ==
    LET country_data == get_country_system(country_name)
    IN  IF country_data = NoneValue THEN NoneValue
        ELSE LegislatureTypeAdjusted(
                 SystemTypeAdjusted(BaselineWeights, country_data.system_type),
                 country_data.legislature_type)

\* Names in lexicographic order (Python's order of str), for sorted().
LexOrder ==
    <<"", "Arstotzka", "Atlantis", "Australia", "Borduria", "Elbonia", "Florin",
      "Freedonia", "Genovia", "Latveria", "New Zealand", "Ruritania",
      "Singapore", "Syldavia", "Sylvania", "United Kingdom", "United States",
      "Wakanda", "Zubrowka">>

\* CountryDataManager.get_all_country_names: sorted(self.political_systems.keys())
get_all_country_names ==
    SelectSeq(LexOrder, LAMBDA n : n \in DOMAIN political_systems)

\* A loop that scores a factor missing from the map as 0 instead of skipping it.
BreakdownMissingAsZero(weights, fs) ==
    [f \in DOMAIN weights |->
        [raw_score      |-> IF f \in DOMAIN fs THEN fs[f] ELSE 0,
         weight         |-> weights[f],
         weighted_score |-> IF f \in DOMAIN fs THEN fs[f] * weights[f] ELSE 0]]

\* The loop of calculate_probability: one breakdown entry per factor that has
\* a weight and a score.
Breakdown(weights, fs) ==
    [f \in DOMAIN weights \cap DOMAIN fs |->
        [raw_score      |-> fs[f],
         weight         |-> weights[f],
         weighted_score |-> fs[f] * weights[f]]]

\* total_score after the loop: score added for each such factor.
WeightedTotal(weights, fs) ==
    SumOver(DOMAIN weights \cap DOMAIN fs,
            [f \in DOMAIN weights \cap DOMAIN fs |-> fs[f] * weights[f]])

\* factors.get('governing_party_support', 0) < 0.3
LowGoverningSupport(fs) ==
    (IF "governing_party_support" \in DOMAIN fs
     THEN fs["governing_party_support"] ELSE 0) < 3

\* Apply system-specific modifiers.
SystemModified(total_score, country_system, fs) ==
    IF country_system.system_type = "monarchy" /\ LowGoverningSupport(fs)
    THEN TimesHalf(total_score)
    ELSE total_score

\* A clamp that forgets the lower bound.
ClampUpperOnly(total_score) == Min(One, total_score)

\* max(0, min(1, total_score))
Clamp(total_score) == Max(0, Min(One, total_score))

\* What a calculate_probability call gives back: raised names the exception,
\* is_none says the pair is (None, None); weighted_sum is total_score after
\* the loop and total_score its value when it is clamped.
Returned(weighted_sum, total_score, breakdown) ==
    [raised |-> "", is_none |-> FALSE, weighted_sum |-> weighted_sum,
     total_score |-> total_score, final_probability |-> Clamp(total_score),
     breakdown |-> breakdown]

NonePair ==
    [raised |-> "", is_none |-> TRUE, weighted_sum |-> 0, total_score |-> 0,
     final_probability |-> 0, breakdown |-> EmptyMap]

Raised(exception) ==
    [raised |-> exception, is_none |-> FALSE, weighted_sum |-> 0,
     total_score |-> 0, final_probability |-> 0, breakdown |-> EmptyMap]

\* LegislativeCalculatorEnhanced.calculate_probability(country_name, factors)
LegislativeCalculatorEnhanced_calculate_probability(country_name, fs) ==
    LET base_weights == calculate_base_weights(country_name)
    IN  IF base_weights = NoneValue THEN NonePair
        ELSE LET country_system == get_country_system(country_name)
                 weighted_sum == WeightedTotal(base_weights, fs)
             IN  Returned(weighted_sum,
                          SystemModified(weighted_sum, country_system, fs),
                          Breakdown(base_weights, fs))

---------------------------------------------------------------------------
(* LegislativeSystem and LegislativeCalculator (app.py) *)

\* LegislativeSystem.__init__
LegislativeSystem(name, is_bicameral, governing_party_weight) ==
    LET weights == [BaselineWeights EXCEPT
                        !["governing_party_support"] = governing_party_weight]
        withChambers == Assign(Assign(weights, "upper_house_support", 1500),
                               "lower_house_support", 1500)
    IN  [name |-> name,
         is_bicameral |-> is_bicameral,
         weights |-> IF is_bicameral
                     THEN [k \in DOMAIN withChambers |->
                              IF k \notin ChamberFactors
                              THEN TimesSevenTenths(withChambers[k])
                              ELSE withChambers[k]]
                     ELSE weights]

\* LegislativeCalculator.__init__: self.systems
BuiltInSystems ==
    [c \in {"Singapore", "United States", "United Kingdom", "New Zealand", "Australia"} |->
        LegislativeSystem(c, c \in {"United States", "United Kingdom", "Australia"}, 3000)]

\* A calculate_probability with the two penalties of the flat baseline
\* rule set (total *= 0.5 on low party support, total *= 0.7 on low
\* committee approval; the product is rounded down to the unit).
LegislativeCalculator_calculate_probability_penalised(bill_factors, country) ==
    IF country \notin DOMAIN systems THEN Raised("KeyError")
    ELSE LET system == systems[country]
             weighted_sum == WeightedTotal(system.weights, bill_factors)
             low_party == /\ "governing_party_support" \in DOMAIN bill_factors
                          /\ bill_factors["governing_party_support"] < 3
             low_committee == /\ "committee_approval" \in DOMAIN bill_factors
                              /\ bill_factors["committee_approval"] < 2
             halved == IF low_party THEN TimesHalf(weighted_sum) ELSE weighted_sum
             total_score == IF low_committee THEN TimesSevenTenths(halved) ELSE halved
         IN  Returned(weighted_sum, total_score,
                      Breakdown(system.weights, bill_factors))

\* LegislativeCalculator.calculate_probability(bill_factors, country);
\* self.systems[country] raises KeyError for a country that is not a key.
LegislativeCalculator_calculate_probability(bill_factors, country) ==
    IF country \notin DOMAIN systems THEN Raised("KeyError")
    ELSE LET system == systems[country]
             total_score == WeightedTotal(system.weights, bill_factors)
         IN  Returned(total_score, total_score,
                      Breakdown(system.weights, bill_factors))

\* A get_interpretation whose lower bounds are exclusive.
get_interpretation_exclusive(probability) ==
    IF probability > 80000 THEN "Very High Probability of Passage"
    ELSE IF probability > 60000 THEN "High Probability of Passage"
    ELSE IF probability > 40000 THEN "Moderate Probability of Passage"
    ELSE IF probability > 20000 THEN "Low Probability of Passage"
    ELSE "Very Low Probability of Passage"

\* LegislativeCalculator.get_interpretation
get_interpretation(probability) ==
    IF probability >= 80000 THEN "Very High Probability of Passage"
    ELSE IF probability >= 60000 THEN "High Probability of Passage"
    ELSE IF probability >= 40000 THEN "Moderate Probability of Passage"
    ELSE IF probability >= 20000 THEN "Low Probability of Passage"
    ELSE "Very Low Probability of Passage"

---------------------------------------------------------------------------
(* Inputs *)

\* Longest text, in words, of a government_type or structure field.
MaxTextLen == 2

\* Most records in a dataset that mixes well-formed and malformed records.
MaxRecords == 2

\* How far, in steps of 0.05, probabilities given to get_interpretation lie
\* outside [0, 1].
MaxTicks == 4

Words ==
    {"bicameral", "Bicameral", "unicameral", "parliamentary", "Parliamentary",
     "presidential", "monarchy", "republic"}

TextsUpTo(n) == UNION {[1..m -> Words] : m \in 0..n}

\* Field values: texts, and the values that are no text.
ValuesUpTo(n) ==
    {Text(t) : t \in TextsUpTo(n)}
        \cup {Absent, Null, Num}
        \cup {ListOf(t) : t \in TextsUpTo(IF n > 0 THEN n - 1 ELSE 0)}

\* A record's Government section with every nested section a dict.
Government(name, government_type, structure) ==
    [kind |-> "dict",
     country_name |-> [kind |-> "dict",
                       conventional_long |-> [kind |-> "text", text |-> name]],
     government_type |-> government_type,
     capital |-> "dict",
     executive_branch |-> "dict",
     legislative_branch |-> [kind |-> "dict", structure |-> structure],
     judicial_branch |-> "dict"]

\* A record that is a dict with a Government section.
Record(gov_data) == [kind |-> "dict", has_government |-> TRUE, Government |-> gov_data]

PlainGovernment == Government("Freedonia", Text(<<"republic">>), Text(<<"unicameral">>))

\* Records of a mixed dataset: well-formed ones (two of them under the same
\* name, one with nothing but an empty Government section) and malformed ones.
LoadRecords ==
    {Record(Government("Freedonia", Text(<<"parliamentary", "republic">>), Text(<<"bicameral">>))),
     Record(Government("Sylvania", Text(<<"presidential">>), Text(<<"unicameral">>))),
     Record(Government("Freedonia", Text(<<"monarchy">>), Text(<<"unicameral">>))),
     Record([PlainGovernment EXCEPT !.country_name.kind = "absent",
                                    !.government_type = Absent,
                                    !.legislative_branch.kind = "absent"]),
     [kind |-> "dict", has_government |-> FALSE, Government |-> PlainGovernment],
     [kind |-> "null", has_government |-> FALSE, Government |-> PlainGovernment],
     [kind |-> "text", has_government |-> TRUE, Government |-> PlainGovernment],
     Record([PlainGovernment EXCEPT !.kind = "text"]),
     Record([PlainGovernment EXCEPT !.country_name.kind = "text"]),
     Record([PlainGovernment EXCEPT !.capital = "text"]),
     Record([PlainGovernment EXCEPT !.legislative_branch.kind = "text"]),
     Record([PlainGovernment EXCEPT !.judicial_branch = "null"]),
     Record([PlainGovernment EXCEPT !.country_name.conventional_long.kind = "list"])}

\* json.load keys the records by country code: the codes are distinct.
\* Here the code of a record is its position in the file.
Coded(records) == [i \in DOMAIN records |-> [country_code |-> i, data |-> records[i]]]

MixedDatasets == {Coded(rs) : rs \in UNION {[1..n -> LoadRecords] : n \in 0..MaxRecords}}

\* One-record datasets over the field values; one of the two fields is short.
ClassifyDatasets ==
    {Coded(<<Record(Government("Freedonia", gt, st))>>) :
        gt \in ValuesUpTo(MaxTextLen), st \in ValuesUpTo(1)}
    \cup
    {Coded(<<Record(Government("Freedonia", gt, st))>>) :
        gt \in ValuesUpTo(1), st \in ValuesUpTo(MaxTextLen)}

\* A dataset with one country of every legislature type and system type.
SampleFactbook ==
    Coded(<<
      Record(Government("Arstotzka", Text(<<"Parliamentary", "republic">>), Text(<<"Bicameral">>))),
      Record(Government("Borduria",  Text(<<"presidential", "republic">>),  Text(<<"bicameral">>))),
      Record(Government("Elbonia",   Text(<<"monarchy">>),                  Text(<<"bicameral">>))),
      Record(Government("Florin",    Text(<<"republic">>),                  Text(<<"bicameral">>))),
      Record(Government("Freedonia", Text(<<"parliamentary", "monarchy">>), Text(<<"unicameral">>))),
      Record(Government("Genovia",   Text(<<"presidential">>),              Text(<<"unicameral">>))),
      Record(Government("Latveria",  Text(<<"monarchy">>),                  Text(<<"unicameral">>))),
      Record(Government("Ruritania", Text(<<"republic">>),                  Text(<<"unicameral">>))),
      Record(Government("Syldavia",  Text(<<"parliamentary">>),             Absent)),
      Record(Government("Sylvania",  Text(<<"presidential">>),              Text(<<>>))),
      Record(Government("Wakanda",   Text(<<"monarchy">>),                  Null)),
      Record(Government("Zubrowka",  Absent,                                Absent))>>)

\* A country neither calculator knows.
UnknownCountry == "Atlantis"

SampleCountries == DOMAIN extract_political_systems(SampleFactbook)

ScoreCountries == SampleCountries \cup DOMAIN BuiltInSystems \cup {UnknownCountry}

\* Factor scores in tenths, some below 0 and above 1.
ScoreValues == {-20, 0, 2, 3, 10, 20}

\* Key sets of a factor map: all or some of the factors, and a key no weight has.
KeySets ==
    {{}, BaselineFactors, BaselineFactors \cup ChamberFactors,
     BaselineFactors \ {"governing_party_support"},
     BaselineFactors \cup ChamberFactors \cup {"lobbying"},
     {"governing_party_support"}, {"lobbying"}, ChamberFactors}

\* The factor map with the given keys; g scores governing_party_support,
\* c committee_approval and r every other key.
FactorMap(keys, g, c, r) ==
    [k \in keys |-> IF k = "governing_party_support" THEN g
                    ELSE IF k = "committee_approval" THEN c ELSE r]

FactorMaps == {FactorMap(K, g, c, r) : K \in KeySets, g, c, r \in ScoreValues}

---------------------------------------------------------------------------
(* Operations *)

\* A call and what it returned.
Call(op, country, fs, probability, value) ==
    [op |-> op, country |-> country, factors |-> fs,
     probability |-> probability, value |-> value]

NoCall == Call("none", "", EmptyMap, 0, NoneValue)

\* No vector has been returned yet.
NothingHanded == [country |-> "", weights |-> EmptyMap, changed |-> FALSE]

\* The caller receives a result; it may keep it to compare a later one with.
Receive(call, keep) ==
    /\ last' = call
    /\ first' = IF keep THEN call ELSE first

\* CountryDataManager.__init__: political_systems = extract_political_systems()
Construct ==
    /\ phase = "constructing"
    /\ political_systems' = extract_political_systems(factbook_data)
    /\ phase' = "ready"
    /\ UNCHANGED <<factbook_data, systems, factors, handed, last, first>>

CalculateBaseWeights(country_name, keep) ==
    /\ phase = "ready"
    /\ LET weights == calculate_base_weights(country_name)
       IN  /\ Receive(Call("calculate_base_weights", country_name, EmptyMap, 0, weights), keep)
           /\ handed' = IF keep /\ weights # NoneValue
                        THEN [country |-> country_name, weights |-> weights,
                              changed |-> FALSE]
                        ELSE handed
    /\ UNCHANGED <<factbook_data, political_systems, phase, systems, factors>>

CalculateProbabilityEnhanced(country_name, keep) ==
    /\ phase = "ready"
    /\ Receive(Call("enhanced_calculate_probability", country_name, factors, 0,
                    LegislativeCalculatorEnhanced_calculate_probability(country_name, factors)),
               keep)
    /\ UNCHANGED <<factbook_data, political_systems, phase, systems, factors, handed>>

CalculateProbability(country, keep) ==
    /\ phase = "ready"
    /\ Receive(Call("calculate_probability", country, factors, 0,
                    LegislativeCalculator_calculate_probability(factors, country)),
               keep)
    /\ UNCHANGED <<factbook_data, political_systems, phase, systems, factors, handed>>

GetCountrySystem(country_name, keep) ==
    /\ phase = "ready"
    /\ Receive(Call("get_country_system", country_name, EmptyMap, 0,
                    get_country_system(country_name)), keep)
    /\ UNCHANGED <<factbook_data, political_systems, phase, systems, factors, handed>>

GetAllCountryNames(keep) ==
    /\ phase = "ready"
    /\ Receive(Call("get_all_country_names", "", EmptyMap, 0, get_all_country_names), keep)
    /\ UNCHANGED <<factbook_data, political_systems, phase, systems, factors, handed>>

GetInterpretation(probability, keep) ==
    /\ phase = "ready"
    /\ Receive(Call("get_interpretation", "", EmptyMap, probability,
                    get_interpretation(probability)), keep)
    /\ UNCHANGED <<factbook_data, political_systems, phase, systems, factors, handed>>

\* The caller changes the vector calculate_base_weights returned to it.
CallerChangesVector(factor, weight) ==
    /\ handed # NothingHanded
    /\ ~handed.changed
    /\ handed' = [handed EXCEPT !.weights = Assign(handed.weights, factor, weight),
                                !.changed = TRUE]
    /\ UNCHANGED <<factbook_data, political_systems, phase, systems, factors, last, first>>

\* The caller builds another factor map for its next calls.
CallerSetsFactors(fs) ==
    /\ factors # fs
    /\ factors' = fs
    /\ UNCHANGED <<factbook_data, political_systems, phase, systems, handed, last, first>>

---------------------------------------------------------------------------
(* Specifications *)

\* Both calculators constructed over the dataset fd, the caller holding fs.
Constructed(fd, fs) ==
    /\ factbook_data = fd
    /\ political_systems = extract_political_systems(fd)
    /\ phase = "ready"
    /\ systems = BuiltInSystems
    /\ factors = fs
    /\ handed = NothingHanded
    /\ last = NoCall
    /\ first = NoCall

\* Loading: a dataset is read and the registry is built from it.
InitLoad ==
    /\ factbook_data \in MixedDatasets \cup ClassifyDatasets
    /\ political_systems = EmptyMap
    /\ phase = "constructing"
    /\ systems = BuiltInSystems
    /\ factors = EmptyMap
    /\ handed = NothingHanded
    /\ last = NoCall
    /\ first = NoCall

NextLoad == Construct

SpecLoad == InitLoad /\ [][NextLoad]_vars

\* Scoring: one call on the sample dataset with any factor map.
Init == \E fs \in FactorMaps : Constructed(SampleFactbook, fs)

Next ==
    \E country \in ScoreCountries :
        \/ last = NoCall /\ CalculateBaseWeights(country, FALSE)
        \/ last = NoCall /\ CalculateProbabilityEnhanced(country, FALSE)
        \/ last = NoCall /\ CalculateProbability(country, FALSE)
        \/ last = NoCall /\ GetCountrySystem(country, FALSE)

Spec == Init /\ [][Next]_vars

\* Interpreting: get_interpretation on probabilities in and around [0, 1].
ProbabilityInputs ==
    {i * 5000 + d : i \in (0 - MaxTicks)..(20 + MaxTicks), d \in {-1, 0, 1}}

InitInterpret == Constructed(SampleFactbook, EmptyMap)

NextInterpret == \E p \in ProbabilityInputs : \E keep \in BOOLEAN : GetInterpretation(p, keep)

SpecInterpret == InitInterpret /\ [][NextInterpret]_vars

\* Calling in any order: every operation, on a few countries and factor maps.
PureCountries == {"Elbonia", "Ruritania", "Singapore", UnknownCountry}

PureFactorMaps ==
    {FactorMap(BaselineFactors, 2, 10, 10),
     FactorMap(BaselineFactors \cup ChamberFactors, 10, 10, 3),
     FactorMap({"public_opinion", "lobbying"}, 10, 10, 20)}

InitPure == \E fs \in PureFactorMaps : Constructed(SampleFactbook, fs)

NextPure ==
    \/ \E country \in PureCountries : \E keep \in BOOLEAN :
        \/ CalculateBaseWeights(country, keep)
        \/ CalculateProbabilityEnhanced(country, keep)
        \/ CalculateProbability(country, keep)
        \/ GetCountrySystem(country, keep)
    \/ \E keep \in BOOLEAN : GetAllCountryNames(keep)
    \/ \E p \in {10000, 50000, 90000} : \E keep \in BOOLEAN : GetInterpretation(p, keep)
    \/ \E factor \in {"governing_party_support", "lobbying"} : CallerChangesVector(factor, 9000)
    \/ \E fs \in PureFactorMaps : CallerSetsFactors(fs)

SpecPure == InitPure /\ [][NextPure]_vars

---------------------------------------------------------------------------
(* Claims about scoring, under Spec *)

\* The last call was a scoring call by the country-aware calculator of
\* country_manager.py / by the calculator of app.py.
EnhancedCall == last.op = "enhanced_calculate_probability"

BaselineCall == last.op = "calculate_probability"

\* The last call was a scoring call for a country its calculator knows.
KnownScoringCall ==
    \/ EnhancedCall /\ last.country \in DOMAIN political_systems
    \/ BaselineCall /\ last.country \in DOMAIN systems

\* The weight vector the last scoring call's calculator uses for its country.
WeightsUsed ==
    IF EnhancedCall THEN calculate_base_weights(last.country)
    ELSE systems[last.country].weights

\* C1: for a known country and any factor map (scores below 0 or above 1,
\* missing or extra keys), calculate_probability of either calculator
\* returns a probability with 0 <= probability <= 1.
C1_ProbabilityInUnitInterval ==
    KnownScoringCall =>
        /\ last.value.raised = ""
        /\ ~last.value.is_none
        /\ 0 <= last.value.final_probability
        /\ last.value.final_probability <= One

\* C1 witness: scores above 1 drive the total above 1 and it is clamped;
\* (the lower clamp is reached likewise by scores below 0).
C1_Witness ==
    /\ KnownScoringCall
    /\ last.value.total_score > One
    /\ last.value.final_probability = One
    /\ \E f \in DOMAIN last.factors : last.factors[f] > 10

\* C2: for a country that is not known, calculate_probability of either
\* calculator returns (None, None) and does not raise, and
\* get_country_system returns None.
C2_UnknownCountryGivesNoResult ==
    /\ EnhancedCall /\ last.country \notin DOMAIN political_systems
           => last.value = NonePair
    /\ BaselineCall /\ last.country \notin DOMAIN systems
           => last.value = NonePair
    /\ last.op = "get_country_system" /\ last.country \notin DOMAIN political_systems
           => last.value = NoneValue

\* The weights C3 states, before the bicameral step.
C3_StatedUnscaled(system_type) ==
    [governing_party_support |-> IF system_type \in {"presidential", "monarchy"}
                                 THEN 2500 ELSE 3000,
     opposition_support      |-> IF system_type = "presidential" THEN 2500 ELSE 1500,
     public_opinion          |-> IF system_type = "monarchy" THEN 1500 ELSE 1000,
     committee_approval      |-> 2000,
     fiscal_impact           |-> 1000,
     urgency_factor          |-> 500,
     previous_similar_bills  |-> 500,
     media_coverage          |-> 500]

\* The vector C3 states for a descriptor.
C3_StatedVector(system_type, legislature_type) ==
    IF legislature_type = "bicameral"
    THEN [k \in BaselineFactors \cup ChamberFactors |->
            IF k \in ChamberFactors THEN 1500
            ELSE (C3_StatedUnscaled(system_type)[k] * 7) \div 10]
    ELSE C3_StatedUnscaled(system_type)

\* C3: the derived vector is the baseline with the system-type override,
\* then, only for a bicameral legislature, each of the 8 weights times 0.7
\* and the two chamber weights 0.15 added unscaled (bicameral presidential:
\* both party weights 0.175); LegislativeSystem gives the vector of the
\* no-override case for the same is_bicameral flag.
C3_WeightVector ==
    /\ last.op = "calculate_base_weights" /\ last.country \in DOMAIN political_systems
        => LET d == political_systems[last.country]
           IN  /\ last.value = C3_StatedVector(d.system_type, d.legislature_type)
               /\ d.legislature_type # "bicameral" => DOMAIN last.value = BaselineFactors
               /\ d.legislature_type = "bicameral" /\ d.system_type = "presidential"
                    => /\ last.value["governing_party_support"] = 1750
                       /\ last.value["opposition_support"] = 1750
    /\ \A c \in DOMAIN systems :
          systems[c].weights =
              C3_StatedVector("other", IF systems[c].is_bicameral
                                       THEN "bicameral" ELSE "unicameral")

\* C3 witness: the vector of a bicameral presidential country was derived.
C3_Witness ==
    /\ last.op = "calculate_base_weights"
    /\ last.country \in DOMAIN political_systems
    /\ political_systems[last.country].legislature_type = "bicameral"
    /\ political_systems[last.country].system_type = "presidential"
    /\ last.value["upper_house_support"] = 1500
    /\ \E c \in DOMAIN systems : systems[c].is_bicameral

\* C4: the country-aware calculator halves the weighted total exactly when
\* the system is a monarchy and governing_party_support is a key of the
\* factor map with a value below 0.3; otherwise (other system, value >= 0.3,
\* key absent) the total is the plain weighted sum.
C4_PenaltyOnlyWithKeyPresent ==
    EnhancedCall /\ last.country \in DOMAIN political_systems =>
        LET fires ==
                /\ political_systems[last.country].system_type = "monarchy"
                /\ "governing_party_support" \in DOMAIN last.factors
                /\ last.factors["governing_party_support"] < 3
        IN  /\ fires => 2 * last.value.total_score = last.value.weighted_sum
            /\ ~fires => last.value.final_probability
                              = Max(0, Min(One, last.value.weighted_sum))

\* The sum of the weighted_score values of a breakdown.
BreakdownSum(breakdown) ==
    SumOver(DOMAIN breakdown, [f \in DOMAIN breakdown |-> breakdown[f].weighted_score])

\* The factor map of the last call scores governing_party_support below 0.3 /
\* committee_approval below 0.2.
LowPartySupport ==
    /\ "governing_party_support" \in DOMAIN last.factors
    /\ last.factors["governing_party_support"] < 3

LowCommitteeApproval ==
    /\ "committee_approval" \in DOMAIN last.factors
    /\ last.factors["committee_approval"] < 2

\* C5 as stated: calculate_probability of app.py multiplies the weighted
\* total by 0.5 if governing_party_support < 0.3 and by 0.7 if
\* committee_approval < 0.2, both possibly on one call, before clamping.
\* (Both sides are scaled by 100 so that the products are exact.)
C5_BaselinePenalties ==
    BaselineCall /\ last.country \in DOMAIN systems =>
        100 * last.value.final_probability
            = Max(0, Min(100 * One,
                         last.value.weighted_sum
                             * (IF LowPartySupport THEN 5 ELSE 10)
                             * (IF LowCommitteeApproval THEN 7 ELSE 10)))

\* C5 as amended: calculate_probability of app.py applies no penalty; the
\* probability is the clamp of the plain sum of the weighted scores,
\* whatever governing_party_support and committee_approval are.
C5_BaselineNoPenalty ==
    BaselineCall /\ last.country \in DOMAIN systems =>
        /\ last.value.total_score = BreakdownSum(last.value.breakdown)
        /\ last.value.final_probability
               = Max(0, Min(One, BreakdownSum(last.value.breakdown)))

\* C5 witness: both conditions of the stated penalties hold on a call whose
\* weighted sum is positive, and the probability is that sum.
C5_Witness ==
    /\ BaselineCall /\ last.country \in DOMAIN systems
    /\ LowPartySupport /\ LowCommitteeApproval
    /\ last.value.weighted_sum > 0
    /\ last.value.final_probability = last.value.weighted_sum

\* C6: the breakdown has exactly the keys that have a weight and a score;
\* each entry holds the score, the weight and their product; the total
\* before any penalty is the sum of the products.  All 8 baseline factors
\* give a unicameral country 8 entries, and a bicameral country scored
\* without the chamber factors 8 entries too.
C6_Breakdown ==
    KnownScoringCall =>
        LET W == WeightsUsed
            F == last.factors
            B == last.value.breakdown
        IN  /\ DOMAIN B = DOMAIN W \cap DOMAIN F
            /\ \A f \in DOMAIN B :
                  /\ B[f].raw_score = F[f]
                  /\ B[f].weight = W[f]
                  /\ B[f].weighted_score = F[f] * W[f]
            /\ last.value.weighted_sum = BreakdownSum(B)
            /\ DOMAIN F = BaselineFactors => Cardinality(DOMAIN B) = 8

\* C6 witness: a bicameral country scored with the 8 baseline factors only.
C6_Witness ==
    /\ EnhancedCall /\ last.country \in DOMAIN political_systems
    /\ political_systems[last.country].legislature_type = "bicameral"
    /\ DOMAIN last.factors = BaselineFactors
    /\ Cardinality(DOMAIN last.value.breakdown) = 8
    /\ Cardinality(DOMAIN WeightsUsed) = 10
    /\ last.value.weighted_sum > 0

---------------------------------------------------------------------------
(* Claim about get_interpretation, under SpecInterpret *)

Labels ==
    <<"Very Low Probability of Passage", "Low Probability of Passage",
      "Moderate Probability of Passage", "High Probability of Passage",
      "Very High Probability of Passage">>

\* The bucket of a label: 1 (Very Low) to 5 (Very High).
Bucket(label) == CHOOSE i \in 1..5 : Labels[i] = label

\* The bucket C7 states for a probability.
C7_StatedBucket(p) ==
    IF p >= 80000 THEN 5
    ELSE IF p >= 60000 THEN 4
    ELSE IF p >= 40000 THEN 3
    ELSE IF p >= 20000 THEN 2
    ELSE 1

\* C7: get_interpretation returns one of the five labels, by inclusive lower
\* bounds 0.8, 0.6, 0.4, 0.2; it is monotonic; and an input outside [0, 1]
\* gets the label of the input clamped to [0, 1].
C7_Interpretation ==
    last.op = "get_interpretation" =>
        /\ \E i \in 1..5 : Labels[i] = last.value
        /\ Bucket(last.value) = C7_StatedBucket(last.probability)
        /\ Bucket(last.value) = C7_StatedBucket(Max(0, Min(One, last.probability)))
        /\ last.probability > One => last.value = Labels[5]
        /\ last.probability < 0 => last.value = Labels[1]
        /\ first.op = "get_interpretation" /\ first.probability <= last.probability
              => Bucket(first.value) <= Bucket(last.value)

\* C7 witness: 0.79999 was interpreted as High and then 0.8 as Very High.
C7_Witness ==
    /\ first.op = "get_interpretation" /\ first.probability = 79999
    /\ first.value = Labels[4]
    /\ last.op = "get_interpretation" /\ last.probability = 80000
    /\ last.value = Labels[5]

---------------------------------------------------------------------------
(* Claims about loading, under SpecLoad *)

\* The words of the lower-cased text the code searches for a field value.
SearchedWords(v) == {LowerWord(Str(v)[i]) : i \in DOMAIN Str(v)}

\* Classification by first match over the searched text of the stored fields.
FirstMatchClassified(e) ==
    /\ e.legislature_type =
          (IF "bicameral" \in SearchedWords(e.structure) THEN "bicameral"
           ELSE IF "unicameral" \in SearchedWords(e.structure) THEN "unicameral"
           ELSE "unknown")
    /\ e.system_type =
          (IF "parliamentary" \in SearchedWords(e.government_type) THEN "parliamentary"
           ELSE IF "presidential" \in SearchedWords(e.government_type) THEN "presidential"
           ELSE IF "monarchy" \in SearchedWords(e.government_type) THEN "monarchy"
           ELSE "other")

\* C8 as stated: every loaded record is classified by first match over the
\* two case-insensitive texts, and a field that is absent or is no text
\* yields unknown / other.
C8_NonTextYieldsDefault ==
    phase = "ready" =>
        \A n \in DOMAIN political_systems :
            LET e == political_systems[n]
            IN  /\ FirstMatchClassified(e)
                /\ e.structure.kind # "text" => e.legislature_type = "unknown"
                /\ e.government_type.kind # "text" => e.system_type = "other"

\* C8 as amended: every loaded record is classified by first match over the
\* lower-cased str() of the two fields (bicameral before unicameral;
\* parliamentary, presidential, monarchy in that order); an absent field
\* yields unknown / other; a field that is no text is classified by what its
\* str() holds; both fields are always set, inside their enumerations.
C8_Classification ==
    phase = "ready" =>
        \A n \in DOMAIN political_systems :
            LET e == political_systems[n]
            IN  /\ FirstMatchClassified(e)
                /\ e.legislature_type \in {"bicameral", "unicameral", "unknown"}
                /\ e.system_type \in {"parliamentary", "presidential", "monarchy", "other"}
                /\ \A i \in DOMAIN factbook_data :
                      LET gov_data == factbook_data[i].data.Government
                      IN  e.country_code = factbook_data[i].country_code =>
                            /\ gov_data.government_type = Absent => e.system_type = "other"
                            /\ Structure(gov_data) = Absent => e.legislature_type = "unknown"
                            /\ e.government_type = GetOrEmpty(gov_data.government_type)
                            /\ e.structure = GetOrEmpty(Structure(gov_data))

\* C8 witness: "Parliamentary monarchy" was loaded as parliamentary.
C8_Witness ==
    /\ phase = "ready"
    /\ \E n \in DOMAIN political_systems :
          /\ political_systems[n].government_type = Text(<<"Parliamentary", "monarchy">>)
          /\ political_systems[n].system_type = "parliamentary"

\* A record that is skipped: it has no Government section, or it raises.
Malformed(item) ==
    \/ LookupRaises(item.data)
    \/ NoGovernment(item.data)
    \/ BuildRaises(item.data.Government)

WellFormed(item) == ~Malformed(item)

\* C9: a malformed or incomplete record is skipped and leaves no entry, whole
\* or partial; the load goes on; and every other record is loaded as it
\* would be without the malformed ones.
C9_RecordsIsolated ==
    phase = "ready" =>
        /\ political_systems
               = extract_political_systems(SelectSeq(factbook_data, WellFormed))
        /\ \A n \in DOMAIN political_systems :
              /\ DOMAIN political_systems[n] =
                    {"country_code", "government_type", "structure",
                     "legislature_type", "system_type"}
              /\ \E i \in DOMAIN factbook_data :
                    /\ WellFormed(factbook_data[i])
                    /\ political_systems[n].country_code = factbook_data[i].country_code
        /\ \A i \in DOMAIN factbook_data :
              WellFormed(factbook_data[i]) =>
                  CountryName(factbook_data[i].data.Government) \in DOMAIN political_systems

\* C9 witness: a record that raises while its entry is built came first,
\* and the well-formed record after it was loaded.
C9_Witness ==
    /\ phase = "ready"
    /\ Len(factbook_data) = 2
    /\ ~LookupRaises(factbook_data[1].data)
    /\ factbook_data[1].data.has_government
    /\ BuildRaises(factbook_data[1].data.Government)
    /\ WellFormed(factbook_data[2])
    /\ DOMAIN political_systems = {"Sylvania"}

---------------------------------------------------------------------------
(* Claim about purity, under SpecPure *)

\* Two calls of the same operation with the same arguments.
SameCall(a, b) ==
    /\ a.op = b.op
    /\ a.op # "none"
    /\ a.country = b.country
    /\ a.factors = b.factors
    /\ a.probability = b.probability

\* C10: after any sequence of calls the registry and the stored weights are
\* what construction made them, a call leaves the caller's factor map as it
\* was, and two calls with the same arguments return the same result
\* whatever happened between them, a change of a returned vector included.
C10_Pure ==
    /\ [](/\ political_systems = extract_political_systems(factbook_data)
          /\ systems = BuiltInSystems
          /\ SameCall(first, last) => first.value = last.value)
    /\ [][last' # last => factors' = factors]_vars

\* C10 witness: a vector was returned and kept, the caller changed it, and
\* the same call was made again.
C10_Witness ==
    /\ first.op = "calculate_base_weights"
    /\ SameCall(first, last)
    /\ handed.country = last.country
    /\ handed.changed
    /\ handed.weights # last.value

=============================================================================
